---- MODULE Spec2Model ----
(***************************************************************************)
(* sortThread / formatThread of src/src/index.ts.                          *)
(*                                                                         *)
(* Strings (thread keys, option strings, rendered text) are sequences of   *)
(* one-character strings.  Item ids are the decimal strings "1", "2", ...  *)
(* and are modelled by their number; a missing parent is NoParent and a    *)
(* missing order is Undefined.                                             *)
(***************************************************************************)
EXTENDS Integers, Sequences, FiniteSets, TLC

\* ------------------------------------------------------------------ bounds
MaxItems == 3          \* longest array handed to sortThread

\* ------------------------------------------------------- values and options
NoParent == 0
Undefined == <<"undefined">>
GhostId == MaxItems + 1  \* an id that no item bears (a broken reference)

startNum == -1
NaN == -2

defaults == [endOfRecord |-> <<".">>, delimiter |-> <<"/">>]

\* the caller's options after the merge with the defaults
Options == {defaults, [endOfRecord |-> <<".">>, delimiter |-> <<"-">>]}

\* ------------------------------------------------------------ characters
Digits36 ==
  << "0","1","2","3","4","5","6","7","8","9","a","b","c","d","e","f","g","h",
     "i","j","k","l","m","n","o","p","q","r","s","t","u","v","w","x","y","z" >>

IsDigit36(ch) == \E i \in 1..36 : Digits36[i] = ch

DigitVal(ch) == (CHOOSE i \in 1..36 : Digits36[i] = ch) - 1

\* collation order of the characters that occur in keys: punctuation, then
\* digits, then letters
Collation == << "-", ".", "/" >> \o Digits36

Rank(ch) == CHOOSE i \in 1..Len(Collation) : Collation[i] = ch

RECURSIVE LocaleCompare(_, _)
LocaleCompare(s, t) ==
  IF s = <<>> /\ t = <<>> THEN 0
  ELSE IF s = <<>> THEN -1
  ELSE IF t = <<>> THEN 1
  ELSE IF Rank(Head(s)) < Rank(Head(t)) THEN -1
  ELSE IF Rank(Head(s)) > Rank(Head(t)) THEN 1
  ELSE LocaleCompare(Tail(s), Tail(t))

\* --------------------------------------------------------- string helpers
Truthy(s) == s # Undefined /\ s # <<>>

EndsWith(s, suffix) ==
  /\ Len(suffix) <= Len(s)
  /\ SubSeq(s, Len(s) - Len(suffix) + 1, Len(s)) = suffix

StartsWith(s, prefix) ==
  /\ Len(prefix) <= Len(s)
  /\ SubSeq(s, 1, Len(prefix)) = prefix

RECURSIVE Split(_, _)
Split(s, d) ==
  LET hits == {k \in 1..Len(s) : StartsWith(SubSeq(s, k, Len(s)), d)}
  IN IF hits = {} THEN <<s>>
     ELSE LET k == CHOOSE h \in hits : \A g \in hits : h <= g
          IN <<SubSeq(s, 1, k - 1)>> \o Split(SubSeq(s, k + Len(d), Len(s)), d)

RECURSIVE ParseDigits(_, _)
ParseDigits(s, acc) ==
  IF s = <<>> \/ ~IsDigit36(Head(s)) THEN acc
  ELSE ParseDigits(Tail(s), acc * 36 + DigitVal(Head(s)))

ParseInt36(s) ==
  IF s = <<>> \/ ~IsDigit36(Head(s)) THEN NaN ELSE ParseDigits(s, 0)

RECURSIVE ToString36(_)
ToString36(n) ==
  IF n = NaN THEN <<"N", "a", "N">>
  ELSE IF n < 36 THEN <<Digits36[n + 1]>>
  ELSE ToString36(n \div 36) \o <<Digits36[(n % 36) + 1]>>

PadStart2(s) == IF Len(s) >= 2 THEN s ELSE <<"0">> \o s

Increment(n) == IF n = NaN THEN NaN ELSE n + 1

RECURSIVE Repeat(_, _)
Repeat(s, k) == IF k <= 0 THEN <<>> ELSE s \o Repeat(s, k - 1)

Last(s) == s[Len(s)]
Front(s) == SubSeq(s, 1, Len(s) - 1)

\* ----------------------------------------------------------- sortThread
\* the end marker is left on the key
stripEorKeepsMarker(thread, opt) == thread

stripEor(thread, opt) ==
  IF Truthy(thread) /\ EndsWith(thread, opt.endOfRecord)
  THEN SubSeq(thread, 1, Len(thread) - 1)
  ELSE thread

compareThread(a, b) ==
  IF a.order # Undefined /\ b.order # Undefined
  THEN LocaleCompare(a.order, b.order)
  ELSE 0

\* Array.prototype.sort / toSorted: a stable sort by the comparator
RECURSIVE InsertSorted(_, _)
InsertSorted(s, e) ==
  IF s = <<>> THEN <<e>>
  ELSE IF compareThread(Last(s), e) > 0
       THEN Append(InsertSorted(Front(s), e), Last(s))
       ELSE Append(s, e)

RECURSIVE StableSort(_)
StableSort(s) ==
  IF s = <<>> THEN <<>> ELSE InsertSorted(StableSort(Front(s)), Last(s))

FindStrict(arr, id) ==
  LET hits == {k \in 1..Len(arr) : arr[k].id = id}
  IN IF hits = {} THEN 0 ELSE CHOOSE h \in hits : \A g \in hits : h <= g

\* the parent is looked up among the keyed items only
FindLooseKeyed(arr, id) ==
  LET hits == {k \in 1..Len(arr) : arr[k].id = id /\ Truthy(arr[k].order)}
  IN IF hits = {} THEN 0 ELSE CHOOSE h \in hits : \A g \in hits : h <= g

\* ids are strings (ThreadSortableItem.id), on which == and === agree
FindLoose(arr, id) ==
  LET hits == {k \in 1..Len(arr) : arr[k].id = id}
  IN IF hits = {} THEN 0 ELSE CHOOSE h \in hits : \A g \in hits : h <= g

\* a parent id that matches no item is not treated as a root
IsRootItemNoFallback(arr, c) == c.parent = NoParent

IsRootItem(arr, c) == c.parent = NoParent \/ FindStrict(arr, c.parent) = 0

\* an item that has a key is keyed again
NeedsThreadAlways(c) == TRUE

NeedsThread(c) == c.order = Undefined

getMaxThread(arr) ==
  LET keyed == StableSort(SelectSeq(arr, LAMBDA t : Truthy(t.order)))
  IN IF keyed = <<>> THEN Undefined ELSE Last(keyed).order

getMaxThreadPerThread(arr, id) ==
  LET justChildren ==
        StableSort(SelectSeq(arr, LAMBDA i : i.parent = id /\ Truthy(i.order)))
  IN IF justChildren = <<>> THEN Undefined ELSE Last(justChildren).order

MakeThread(prefix, n, opt) ==
  prefix \o PadStart2(ToString36(Increment(n))) \o opt.endOfRecord

RootThread(arr, opt) ==
  LET max == stripEor(getMaxThread(arr), opt)
      parts == IF max # Undefined THEN Split(max, opt.delimiter) ELSE <<>>
      n == IF Truthy(max) THEN ParseInt36(parts[1]) ELSE startNum
  IN MakeThread(<<>>, n, opt)

\* the slot is read from the first segment of the largest sibling key
ChildThreadFirstPart(arr, p, c, opt) ==
  LET prefix == stripEor(arr[p].order, opt) \o opt.delimiter
      max == stripEor(getMaxThreadPerThread(arr, c.parent), opt)
      max2 == stripEor(max, opt)
      parts == Split(max2, opt.delimiter)
      n == IF max = Undefined THEN startNum ELSE ParseInt36(parts[1])
  IN MakeThread(prefix, n, opt)

ChildThread(arr, p, c, opt) ==
  LET prefix == stripEor(arr[p].order, opt) \o opt.delimiter
      max == stripEor(getMaxThreadPerThread(arr, c.parent), opt)
      max2 == stripEor(max, opt)
      parts == Split(max2, opt.delimiter)
      n == IF max = Undefined THEN startNum ELSE ParseInt36(parts[Len(parts)])
  IN MakeThread(prefix, n, opt)

setThread(st, k, value) ==
  [st EXCEPT !.items[k].order = value, !.log = Append(@, st.items[k].ref)]

\* the call stack holds StackLimit frames; a parent chain over n items that
\* nests deeper than n revisits an un-keyed item and so never ends
StackLimit == MaxItems + 1

RECURSIVE populateThreadForItem(_, _, _, _)
populateThreadForItem(st, k, opt, frames) ==
  IF st.err # "none" THEN st
  ELSE IF frames > StackLimit THEN [st EXCEPT !.err = "RangeError"]
  ELSE
    LET c == st.items[k] IN
    IF ~NeedsThread(c) THEN st
    ELSE IF IsRootItem(st.items, c)
    THEN setThread(st, k, RootThread(st.items, opt))
    ELSE
      LET p == FindLoose(st.items, c.parent) IN
      IF p = 0 THEN [st EXCEPT !.err = "Comment parent not found"]
      ELSE
        LET st1 == populateThreadForItem(st, p, opt, frames + 1) IN
        IF st1.err # "none" THEN st1
        ELSE setThread(st1, k, ChildThread(st1.items, p, c, opt))

RECURSIVE PopulateAll(_, _, _)
PopulateAll(st, k, opt) ==
  IF k > Len(st.items) THEN st
  ELSE PopulateAll(populateThreadForItem(st, k, opt, 1), k + 1, opt)

\* the array is returned as the keying pass left it, unsorted
SortThreadResultUnsorted(arr, opt) ==
  PopulateAll([items |-> arr, log |-> <<>>, err |-> "none"], 1, opt)

\* the whole call: the keying pass, then the in-place sort unless it threw
SortThreadResult(arr, opt) ==
  LET st == PopulateAll([items |-> arr, log |-> <<>>, err |-> "none"], 1, opt)
  IN IF st.err # "none" THEN st ELSE [st EXCEPT !.items = StableSort(@)]

\* ---------------------------------------------------------- formatThread
IdString(id) == <<Digits36[id + 1]>>

FormatDepth(i) ==
  (IF i.order # Undefined THEN Len(Split(i.order, <<"/">>)) ELSE 1) - 1

Bullet(i) ==
  <<" ", "-", " ", "i", "t", "e", "m", " ">> \o IdString(i.id) \o <<" ">>
  \o (IF i.parent # NoParent
      THEN <<"(", "p", "a", "r", "e", "n", "t", " ">> \o IdString(i.parent) \o <<")">>
      ELSE <<>>)

FormatLine(i) == Repeat(<<" ", " ">>, FormatDepth(i)) \o Bullet(i)

RECURSIVE Join(_, _)
Join(lines, sep) ==
  IF lines = <<>> THEN <<>>
  ELSE IF Len(lines) = 1 THEN lines[1]
  ELSE lines[1] \o sep \o Join(Tail(lines), sep)

FormatThreadResult(arr) ==
  Join([k \in 1..Len(arr) |-> FormatLine(arr[k])], <<"\n">>)

\* ------------------------------------------------------------------ state
VARIABLES
  items,     \* the caller's array; each item has ref (object identity), id, parent, order
  opt,       \* the caller's options, merged with the defaults
  status,    \* "ready" | "returned" | "threw": how the latest sortThread call ended
  error,     \* the message of the error it threw, or "none"
  input,     \* the array as it entered the latest call
  writes,    \* refs of the items setThread wrote in the latest call, in order
  again,     \* the latest call was made on the array the call before it returned
  text       \* what the latest formatThread call returned, or Undefined

vars == <<items, opt, status, error, input, writes, again, text>>

\* keys an earlier run with the same options may have left: the last
\* two-character root slot and a first-level reply
PreKeys(o) ==
  { <<"z", "z">> \o o.endOfRecord,
    <<"0", "0">> \o o.delimiter \o <<"0", "1">> \o o.endOfRecord }

ParentChoices(n) == {NoParent} \cup 1..n \cup {GhostId}

\* The first array: item k bears id "k" and any parent reference (a later
\* item, itself, an id nobody bears).  At most one item departs from that:
\* it repeats the id of an earlier item, or it already carries a key.
Plain(n, par) ==
  [k \in 1..n |-> [ref |-> k, id |-> k, parent |-> par[k], order |-> Undefined]]

FirstArray(a, o) ==
  \E n \in 0..MaxItems : \E par \in [1..n -> ParentChoices(n)] :
    \/ a = Plain(n, par)
    \/ \E k \in 2..n : \E j \in 1..(k - 1) : a = [Plain(n, par) EXCEPT ![k].id = j]
    \/ \E k \in 1..n : \E key \in PreKeys(o) : a = [Plain(n, par) EXCEPT ![k].order = key]

InitWith(OptionChoices) ==
  /\ opt \in OptionChoices
  /\ FirstArray(items, opt)
  /\ status = "ready"
  /\ error = "none"
  /\ input = <<>>
  /\ writes = <<>>
  /\ again = FALSE
  /\ text = Undefined

\* the caller passes no options
Init == InitWith({defaults})

\* the caller passes its own delimiter, or none
InitOptions == InitWith(Options)

sortThread ==
  /\ LET r == SortThreadResult(items, opt) IN
       /\ items' = r.items
       /\ writes' = r.log
       /\ error' = r.err
       /\ status' = IF r.err = "none" THEN "returned" ELSE "threw"
  /\ input' = items
  /\ again' = (status = "returned")
  /\ text' = Undefined
  /\ UNCHANGED opt

formatThread ==
  /\ status = "returned"
  /\ text' = FormatThreadResult(items)
  /\ UNCHANGED <<items, opt, status, error, input, writes, again>>

\* the caller threads a new, un-keyed item into an array sortThread returned
AddItem(parent) ==
  /\ status = "returned"
  /\ Len(items) < MaxItems
  /\ items' = Append(items, [ref |-> Len(items) + 1, id |-> Len(items) + 1,
                             parent |-> parent, order |-> Undefined])
  /\ status' = "ready"
  /\ text' = Undefined
  /\ UNCHANGED <<opt, error, input, writes, again>>

Next ==
  \/ sortThread
  \/ formatThread
  \/ \E parent \in ParentChoices(Len(items) + 1) : AddItem(parent)

Spec == Init /\ [][Next]_vars

SpecOptions == InitOptions /\ [][Next]_vars

\* ------------------------------------------------- vocabulary of the claims
Returned == status = "returned"
Called == status \in {"returned", "threw"}

Keyed(a, k) == a[k].order # Undefined

UniqueIds(a) == \A j, k \in 1..Len(a) : j # k => a[j].id # a[k].id

NoPreKeys(a) == \A k \in 1..Len(a) : ~Keyed(a, k)

\* position of the item a[k].parent names (the first one bearing that id), or 0
ParentPos(a, k) ==
  IF a[k].parent = NoParent \/ ~\E j \in 1..Len(a) : a[j].id = a[k].parent
  THEN 0
  ELSE CHOOSE j \in 1..Len(a) :
         a[j].id = a[k].parent /\ \A i \in 1..(j - 1) : a[i].id # a[k].parent

IsRootAt(a, k) == ParentPos(a, k) = 0

BrokenRef(a, k) == a[k].parent # NoParent /\ ParentPos(a, k) = 0

RECURSIVE Up(_, _, _)
Up(a, k, n) == IF n = 0 \/ k = 0 THEN k ELSE Up(a, ParentPos(a, k), n - 1)

Acyclic(a) == \A k \in 1..Len(a) : Up(a, k, Len(a)) = 0

\* y lies in the subtree of x
InSubtree(a, x, y) == \E n \in 0..Len(a) : Up(a, y, n) = x

PosOfRef(a, r) == CHOOSE k \in 1..Len(a) : a[k].ref = r

SameLevel(a, j, k) ==
  \/ IsRootAt(a, j) /\ IsRootAt(a, k)
  \/ ~IsRootAt(a, j) /\ ~IsRootAt(a, k) /\ a[j].parent = a[k].parent

\* a key without its final end marker, and its segments
KeyBody(key, o) ==
  IF Len(key) > 0 /\ <<key[Len(key)]>> = o.endOfRecord
  THEN [i \in 1..(Len(key) - 1) |-> key[i]] ELSE key

RECURSIVE SegmentsOf(_, _)
SegmentsOf(s, ch) ==
  IF \A i \in 1..Len(s) : s[i] # ch THEN <<s>>
  ELSE LET i == CHOOSE x \in 1..Len(s) : s[x] = ch /\ \A y \in 1..(x - 1) : s[y] # ch
       IN <<[y \in 1..(i - 1) |-> s[y]]>>
          \o SegmentsOf([y \in 1..(Len(s) - i) |-> s[y + i]], ch)

KeySegments(key, o) == SegmentsOf(KeyBody(key, o), o.delimiter[1])

RECURSIVE Base36Value(_)
Base36Value(seg) ==
  IF seg = <<>> THEN 0
  ELSE 36 * Base36Value([i \in 1..(Len(seg) - 1) |-> seg[i]])
       + ((CHOOSE d \in 1..36 : Digits36[d] = seg[Len(seg)]) - 1)

IsBase36(seg) ==
  /\ Len(seg) >= 2
  /\ \A i \in 1..Len(seg) : \E d \in 1..36 : Digits36[d] = seg[i]

LastSegValue(key, o) ==
  LET segs == KeySegments(key, o) IN Base36Value(segs[Len(segs)])

FirstSegment(key, o) == KeySegments(key, o)[1]

KeyLess(x, y) == LocaleCompare(x, y) < 0

MaxOf(S) == CHOOSE m \in S : \A x \in S : x <= m

\* key(parent) without its marker, then the delimiter, is a proper prefix of
\* key(a[k]) without its marker, which has exactly one more segment
PrefixRel(a, k, o) ==
  LET p == ParentPos(a, k)
      pk == KeyBody(a[p].order, o) \o o.delimiter
      ck == KeyBody(a[k].order, o)
  IN /\ Keyed(a, p)
     /\ Keyed(a, k)
     /\ Len(pk) < Len(ck)
     /\ [i \in 1..Len(pk) |-> ck[i]] = pk
     /\ Len(KeySegments(a[k].order, o)) = Len(KeySegments(a[p].order, o)) + 1

\* ---------------------------------------------------------------------- C1
\* C1: after a call with the default options on an array with unique ids,
\* acyclic parent links and no pre-existing keys, the subtree of every item
\* fills a contiguous range of positions that starts at the item itself.
C1_PreorderContiguity ==
  (Returned /\ opt = defaults /\ UniqueIds(input) /\ Acyclic(input) /\ NoPreKeys(input))
  => \A p \in 1..Len(items) :
       LET S == {q \in 1..Len(items) : InSubtree(items, p, q)}
       IN S = p..(p + Cardinality(S) - 1)

\* a child stood before its parent and the sort moved it behind
C1_Witness ==
  /\ Returned /\ opt = defaults
  /\ UniqueIds(input) /\ Acyclic(input) /\ NoPreKeys(input)
  /\ Len(input) = MaxItems
  /\ \E k \in 1..Len(input) : ParentPos(input, k) > k
  /\ \E p \in 1..Len(items) : ParentPos(items, p + 1) = p /\ IsRootAt(items, p)
  /\ items # input

\* ---------------------------------------------------------------------- C2
\* C2: after a call with the default options on an array with unique ids,
\* acyclic parent links and no pre-existing keys, two items of the same level
\* keep their input order: the earlier one has the smaller key and the
\* earlier position in the returned array.
C2_SameLevelOrderKept ==
  (Returned /\ opt = defaults /\ UniqueIds(input) /\ Acyclic(input) /\ NoPreKeys(input))
  => \A j, k \in 1..Len(input) :
       (j < k /\ SameLevel(input, j, k))
       => LET pj == PosOfRef(items, input[j].ref)
              pk == PosOfRef(items, input[k].ref)
          IN KeyLess(items[pj].order, items[pk].order) /\ pj < pk

\* ---------------------------------------------------------------------- C3
PreKeysKeepPrefix(a, o) ==
  \A k \in 1..Len(a) : (Keyed(a, k) /\ ~IsRootAt(a, k)) => PrefixRel(a, k, o)

\* C3: after a call with the default options on an array with unique ids and
\* acyclic parent links whose pre-existing keys satisfy it, every item with a
\* resolvable parent has a key that extends the parent's key by the delimiter
\* and exactly one segment.
C3_AncestorPrefix ==
  (Returned /\ opt = defaults /\ UniqueIds(input) /\ Acyclic(input)
     /\ PreKeysKeepPrefix(input, opt))
  => \A k \in 1..Len(items) : ~IsRootAt(items, k) => PrefixRel(items, k, opt)

\* a reply that stood before its parent was keyed in the call, under a parent
\* that is itself a reply and was keyed in the same call
C3_Witness ==
  /\ Returned /\ opt = defaults /\ UniqueIds(input) /\ Acyclic(input)
  /\ PreKeysKeepPrefix(input, opt)
  /\ \E k \in 1..Len(input) :
       /\ ParentPos(input, k) > k
       /\ ~Keyed(input, k)
       /\ ~Keyed(input, ParentPos(input, k))
       /\ ~IsRootAt(input, ParentPos(input, k))

\* ---------------------------------------------------------------------- C4
\* C4: a call made on the array the call before it returned, with the same
\* options, leaves every key and the order of the array as they were.
C4_Idempotent == (Returned /\ again) => items = input

C4_Witness ==
  /\ Returned /\ again
  /\ Len(items) = MaxItems
  /\ \E k \in 1..Len(items) : Len(KeySegments(items[k].order, opt)) = 2

\* ---------------------------------------------------------------------- C5
WriteCount(r) == Cardinality({t \in 1..Len(writes) : writes[t] = r})

\* C5: in any call, an item that enters with a key keeps it, an item that
\* enters without one has its key written exactly once, no id or parent
\* changes, and the returned array is a permutation of the input items.
C5_FrameAndSingleWrite ==
  Called =>
    /\ Len(items) = Len(input)
    /\ \A k \in 1..Len(input) :
         \E q \in 1..Len(items) :
           /\ items[q].ref = input[k].ref
           /\ \A q2 \in 1..Len(items) : items[q2].ref = input[k].ref => q2 = q
           /\ items[q].id = input[k].id
           /\ items[q].parent = input[k].parent
           /\ Keyed(input, k) => (items[q].order = input[k].order
                                   /\ WriteCount(input[k].ref) = 0)
           /\ ~Keyed(input, k) => (WriteCount(input[k].ref) = 1 /\ Keyed(items, q))

\* the same statement for the calls that return
C5_FrameWhenReturned == Returned => C5_FrameAndSingleWrite

\* in any call, also one that throws: the items stay the same objects with the
\* same id and parent, a key present at entry is kept, and no key is written twice
C5_KeysKept ==
  Called =>
    /\ Len(items) = Len(input)
    /\ \A k \in 1..Len(input) :
         \E q \in 1..Len(items) :
           /\ items[q].ref = input[k].ref
           /\ items[q].id = input[k].id
           /\ items[q].parent = input[k].parent
           /\ Keyed(input, k) => items[q].order = input[k].order
           /\ WriteCount(input[k].ref) <= 1

\* -------------------------------------------- the keying pass, write by write
\* the items in their input positions, as the latest call left them
Final == [k \in 1..Len(input) |-> items[PosOfRef(items, input[k].ref)]]

WrittenPos(t) == PosOfRef(input, writes[t])

\* the input positions that carried a key when the t-th write was made
KeyedBefore(t) ==
  {k \in 1..Len(input) : Keyed(input, k)} \cup {WrittenPos(u) : u \in 1..(t - 1)}

KeyedSiblingsBefore(t) ==
  {i \in KeyedBefore(t) : i # WrittenPos(t) /\ SameLevel(input, i, WrittenPos(t))}

NextSlot(S) ==
  IF S = {} THEN 0 ELSE 1 + MaxOf({LastSegValue(Final[i].order, opt) : i \in S})

TwoDigits(seg) == Len(seg) = 2 /\ IsBase36(seg)

\* ---------------------------------------------------------------------- C6
RootIndex(k) == Base36Value(FirstSegment(Final[k].order, opt))

NextRootIndex(t) ==
  LET roots == {i \in KeyedBefore(t) : IsRootAt(input, i)}
  IN IF roots = {} THEN 0 ELSE 1 + MaxOf({RootIndex(i) : i \in roots})

SingleSegment(key) ==
  /\ Len(KeySegments(key, opt)) = 1
  /\ \A i \in 1..Len(key) : <<key[i]>> # opt.delimiter

\* every key present has a two-character first segment, that of a keyed root
FirstSegmentsFromRoots(t) ==
  \A i \in KeyedBefore(t) :
    /\ TwoDigits(FirstSegment(Final[i].order, opt))
    /\ \E r \in KeyedBefore(t) :
         /\ IsRootAt(input, r)
         /\ FirstSegment(Final[r].order, opt) = FirstSegment(Final[i].order, opt)

\* the key the same call gives the item once its parent reference is removed
KeyWithoutParent(k) ==
  LET r == SortThreadResult([input EXCEPT ![k].parent = NoParent], opt)
  IN r.items[PosOfRef(r.items, input[k].ref)].order

\* C6: sortThread keys an un-keyed item whose parent id matches no id exactly
\* as it keys the item without the parent reference, with a single-segment
\* key; its index is one more than the largest keyed root index whenever
\* every key present has a two-character first segment that a keyed root
\* bears; a call that returns has keyed every such item, and a call throws
\* only on a parent cycle.
C6_BrokenRefFallback ==
  /\ \A t \in 1..Len(writes) :
       BrokenRef(input, WrittenPos(t))
       => /\ Final[WrittenPos(t)].order = KeyWithoutParent(WrittenPos(t))
          /\ SingleSegment(Final[WrittenPos(t)].order)
          /\ FirstSegmentsFromRoots(t) => RootIndex(WrittenPos(t)) = NextRootIndex(t)
  /\ Returned =>
       \A k \in 1..Len(input) :
         (BrokenRef(input, k) /\ ~Keyed(input, k)) => WriteCount(input[k].ref) = 1
  /\ status = "threw" => ~Acyclic(input)

\* a broken reference was keyed after two roots, one of them keyed before the call
C6_Witness ==
  /\ Returned
  /\ \E t \in 1..Len(writes) :
       /\ BrokenRef(input, WrittenPos(t))
       /\ FirstSegmentsFromRoots(t)
       /\ Cardinality({i \in KeyedBefore(t) : IsRootAt(input, i)}) = 2
       /\ \E i \in KeyedBefore(t) : Keyed(input, i)

\* ---------------------------------------------------------------------- C7
ExpectedLine(i) ==
  Repeat(<<" ">>, 2 * (Len(KeySegments(i.order, opt)) - 1)) \o Bullet(i)

\* C7: formatThread emits one line per item, in the array's order, each
\* indented by 2 spaces per delimiter-separated segment of the key beyond
\* the first, whatever delimiter the keys were made with.
C7_DepthRendering ==
  (text # Undefined /\ Returned)
  => text = Join([k \in 1..Len(items) |-> ExpectedLine(items[k])], <<"\n">>)

\* the same statement for keys made with the default delimiter
C7_DefaultDelimiter == opt = defaults => C7_DepthRendering

\* ---------------------------------------------------------------------- C8
WellFormedKey(key) ==
  /\ Len(key) > 0 /\ <<key[Len(key)]>> = opt.endOfRecord
  /\ \A j \in 1..Len(KeySegments(key, opt)) : IsBase36(KeySegments(key, opt)[j])

\* every key in K is well formed and has one segment per level: one for a
\* root, one more than its parent's key, which it extends, for a reply
OnePerLevel(K) ==
  \A i \in K :
    /\ WellFormedKey(Final[i].order)
    /\ IsRootAt(input, i) => Len(KeySegments(Final[i].order, opt)) = 1
    /\ ~IsRootAt(input, i) => (ParentPos(input, i) \in K /\ PrefixRel(Final, i, opt))

\* every key present is made of two-character segments, one per level
CanonicalBefore(t) ==
  /\ OnePerLevel(KeyedBefore(t))
  /\ \A i \in KeyedBefore(t) :
       \A j \in 1..Len(KeySegments(Final[i].order, opt)) :
         TwoDigits(KeySegments(Final[i].order, opt)[j])

SiblingKeysDistinct(S) ==
  \A i, j \in S : (i # j /\ SameLevel(input, i, j)) => Final[i].order # Final[j].order

\* C6 as stated, for calls that return on inputs whose keys are well formed,
\* one segment per level: an un-keyed item whose parent id matches no id gets
\* a single-segment key whose index is one more than the largest root index
\* already keyed.
C6_BrokenRefOriginal ==
  (Returned /\ OnePerLevel(KeyedBefore(1)))
  => \A t \in 1..Len(writes) :
       BrokenRef(input, WrittenPos(t))
       => /\ SingleSegment(Final[WrittenPos(t)].order)
          /\ RootIndex(WrittenPos(t)) = NextRootIndex(t)

\* C8 as stated: with well-formed base-36 keys in the input (one segment per
\* level, distinct among siblings), every key that is assigned ends in one
\* more than the largest last segment of the siblings keyed so far (0 when
\* there is none), and no two siblings share a key.
C8_NextSlotOriginal ==
  (Called /\ OnePerLevel(KeyedBefore(1)) /\ SiblingKeysDistinct(KeyedBefore(1)))
  => /\ \A t \in 1..Len(writes) :
          LastSegValue(Final[WrittenPos(t)].order, opt) = NextSlot(KeyedSiblingsBefore(t))
     /\ SiblingKeysDistinct(KeyedBefore(Len(writes) + 1))

\* C8: whenever a key is assigned while every key present is made of
\* two-character base-36 segments, one per level, under the ancestor-prefix
\* invariant, its last segment is one more than the largest last segment of
\* the siblings keyed so far, or 0; and while that stays so, siblings keyed
\* apart from equal pre-existing keys never share a key.
C8_NextSlot ==
  Called =>
    /\ \A t \in 1..Len(writes) :
         CanonicalBefore(t)
         => LastSegValue(Final[WrittenPos(t)].order, opt) = NextSlot(KeyedSiblingsBefore(t))
    /\ (CanonicalBefore(Len(writes) + 1) /\ SiblingKeysDistinct(KeyedBefore(1)))
       => SiblingKeysDistinct(KeyedBefore(Len(writes) + 1))

\* a second reply was keyed under a parent whose first reply was keyed earlier
C8_Witness ==
  /\ Called
  /\ \E t \in 1..Len(writes) :
       /\ CanonicalBefore(t)
       /\ ~IsRootAt(input, WrittenPos(t))
       /\ KeyedSiblingsBefore(t) # {}
       /\ \E i \in KeyedBefore(t) : Keyed(input, i)

\* ---------------------------------------------------------------------- C9
\* C9: every sortThread call returns, also when parent references form a cycle.
C9_Terminates == status # "threw"

\* --------------------------------------------------------------------- C10
\* C10: no call raises 'Comment parent not found', whatever the ids, parents
\* and keys of the input.
C10_ParentAlwaysFound == error # "Comment parent not found"

\* a reply was keyed under the first of two items that share an id, in an
\* array that also holds a broken reference
C10_Witness ==
  /\ Returned
  /\ ~UniqueIds(input)
  /\ \E k \in 1..Len(input) : BrokenRef(input, k)
  /\ \E t \in 1..Len(writes) :
       LET k == WrittenPos(t) IN
       /\ ~IsRootAt(input, k)
       /\ \E j \in 1..Len(input) : j # ParentPos(input, k) /\ input[j].id = input[k].parent

====
